---- MODULE Spec2Model ----
(***************************************************************************)
(* Model of lutris/sync.py: the Sync class that reconciles the local game  *)
(* library (pga store) with the remote library (api.get_library) and with  *)
(* the Steam / Wine Steam installation state found in the appmanifests.    *)
(*                                                                         *)
(* Values: a timestamp is a natural number, 0 standing for None; a year is *)
(* 0 (None) or a year; a steamid is 0 (None) or a positive number in the   *)
(* store and in the remote library, and a string in the appmanifests; a    *)
(* name, a runner and a configpath are strings, "" standing for None.      *)
(***************************************************************************)
EXTENDS Integers, Sequences, FiniteSets, TLC

VARIABLES
    store,        \* the pga games table: a sequence of rows, the id is the index
    library,      \* Sync.library: the rows read by the last pga.get_games()
    remote,       \* what api.get_library() returns when the service answers
    host,         \* per runner: is_installed() and the steamapps dirs with their appmanifests
    pc,           \* where the running operation stands, "idle" between operations
    op,           \* the operation running, or the last one that returned
    fetchOk,      \* whether api.get_library() answered in that operation
    prevOp,       \* the operation before it, and whether its fetch answered
    idx,          \* index of the loop over remote_library or over self.library
    added,        \* the result sets of the operation
    updated,
    installed,
    uninstalled,
    calls         \* the calls the operation has made to its collaborators, in order

vars == <<store, library, remote, host, pc, op, fetchOk, prevOp, idx,
          added, updated, installed, uninstalled, calls>>

(***************************************************************************)
(* Bounds and domains                                                      *)
(***************************************************************************)
MaxTime == 2

Slugs == {"doom", "quake"}
LocalSlugs == {"doom"}
Years == {0, 1993}
Times == 1..MaxTime
SteamIds == {42}
Runners == {"linux", "steam", "winesteam"}

\* str(game_info['steamid']) as sync_steam_local computes it
Str(steamid) == IF steamid = 0 THEN "None" ELSE IF steamid = 42 THEN "42" ELSE "?"

\* steamid of the remote entry of a slug: the catalog knows doom's steamid only
RemoteSteamId(slug) == IF slug = "doom" THEN 42 ELSE 0

RemoteEntries ==
    {[slug |-> s, name |-> "Remote name", year |-> y, updated |-> u,
      steamid |-> RemoteSteamId(s)] : s \in Slugs, y \in Years, u \in Times}

RemoteLibraries ==
    {<<>>} \cup {<<e>> : e \in RemoteEntries}
           \cup {<<e, f>> : e \in RemoteEntries, f \in RemoteEntries}

Row(id, slug, name, year, upd, steamid, runner, inst, configpath) ==
    [id |-> id, slug |-> slug, name |-> name, year |-> year, updated |-> upd,
     steamid |-> steamid, runner |-> runner, installed |-> inst,
     configpath |-> configpath]

\* rows that differ in the metadata the remote phase reads
MetadataRows ==
    {Row(1, s, n, y, u, sid, "steam", FALSE, "") :
        s \in LocalSlugs, n \in {"", "Local name"}, y \in Years, u \in 0..MaxTime,
        sid \in SteamIds}

\* rows that differ in the fields the installation phase reads
InstallRows ==
    {Row(1, s, "Local name", 1993, 1, sid, r, i, c) :
        s \in LocalSlugs, sid \in {0} \cup SteamIds, r \in Runners,
        i \in BOOLEAN, c \in {"", "cfg"}}

\* a second row of the library, with the same steamid under another slug
SecondRows ==
    {Row(2, "quake", "Local name", 1993, 1, sid, r, i, "") :
        sid \in SteamIds, r \in {"steam", "winesteam"}, i \in BOOLEAN}

\* an appmanifest file: parses is FALSE for a file AppManifest() cannot read
Manifest(steamid, inst) == [steamid |-> steamid, is_installed |-> inst, parses |-> TRUE]
CorruptManifest(steamid) == [steamid |-> steamid, is_installed |-> FALSE, parses |-> FALSE]

\* a runner on the host: installed with the game installed, installed with the
\* game's manifest not installed (in a second steamapps dir), or not installed
\* while a manifest is still on disk
HasGame == [is_installed |-> TRUE, steamapps_dirs |-> <<{Manifest("42", TRUE)}>>]
HasNoGame == [is_installed |-> TRUE, steamapps_dirs |-> <<{}, {Manifest("42", FALSE)}>>]
NotInstalled == [is_installed |-> FALSE, steamapps_dirs |-> <<{Manifest("42", TRUE)}>>]
RunnerHosts == {HasGame, HasNoGame, NotInstalled}

\* an installed runner with an unreadable manifest in its first steamapps dir and
\* the game installed in the second
HasCorruptManifest ==
    [is_installed |-> TRUE,
     steamapps_dirs |-> <<{CorruptManifest("7")}, {Manifest("42", TRUE)}>>]

\* a library with any metadata against any remote library, on a host with the
\* game installed under one of the runners
InitRemoteCases ==
    /\ store \in {<<>>} \cup {<<r>> : r \in MetadataRows}
    /\ remote \in RemoteLibraries
    /\ host \in {[steam |-> HasGame, winesteam |-> HasNoGame],
                 [steam |-> HasNoGame, winesteam |-> HasGame]}

\* a library with any installation state on any host, against a small remote library
InitLocalCases ==
    /\ store \in {<<>>} \cup {<<r>> : r \in InstallRows}
    /\ remote \in {<<>>} \cup {<<e>> : e \in {x \in RemoteEntries :
                                                x.year = 1993 /\ x.updated = 1}}
    /\ host \in [steam : RunnerHosts, winesteam : RunnerHosts]

\* a library of two games with any installation state on any host
InitTwoGamesCases ==
    /\ store \in {<<r, q>> : r \in InstallRows, q \in SecondRows}
    /\ remote = <<>>
    /\ host \in [steam : RunnerHosts, winesteam : RunnerHosts]

NoCalls == <<>>
Call(name, ids, slug, info) == [call |-> name, ids |-> ids, slug |-> slug, info |-> info]

(***************************************************************************)
(* The local store (pga) as the library contract describes it              *)
(***************************************************************************)
\* pga.get_games()
get_games(st) == st

\* pga.get_game_by_field(slug, 'slug'): the id of the first row with the slug, 0 for None
get_game_by_field(st, slug) ==
    IF \E i \in DOMAIN st : st[i].slug = slug
    THEN CHOOSE i \in DOMAIN st :
            /\ st[i].slug = slug
            /\ \A j \in DOMAIN st : st[j].slug = slug => i <= j
    ELSE 0

\* pga.add_games_bulk(missing): one new row per record, the new ids are returned
add_games_bulk(st, missing) ==
    [store |-> st \o [i \in 1..Len(missing) |->
                        Row(Len(st) + i, missing[i].slug, missing[i].name,
                            missing[i].year, missing[i].updated,
                            missing[i].steamid, "", FALSE, "")],
     ids |-> {Len(st) + i : i \in 1..Len(missing)}]

\* pga.add_or_update(name, runner, slug, year, updated, steamid): upsert keyed by slug
add_or_update(st, name, runner, slug, year, upd, steamid) ==
    LET id == get_game_by_field(st, slug) IN
    IF id = 0
    THEN [store |-> Append(st, Row(Len(st) + 1, slug, name, year, upd, steamid,
                                   runner, FALSE, "")),
          id |-> Len(st) + 1]
    ELSE [store |-> [st EXCEPT ![id] =
                        [@ EXCEPT !.name = name, !.runner = runner, !.year = year,
                                  !.updated = upd, !.steamid = steamid]],
          id |-> id]

(***************************************************************************)
(* Sync.sync_missing_games                                                 *)
(***************************************************************************)
MissingRecord(game) ==
    [name |-> game.name, slug |-> game.slug, year |-> game.year,
     updated |-> game.updated, steamid |-> game.steamid]

RECURSIVE missing_games(_, _)
missing_games(not_in_local, remote_library) ==
    IF remote_library = <<>> THEN <<>>
    ELSE LET game == Head(remote_library)
             rest == missing_games(not_in_local, Tail(remote_library))
         IN IF game.slug \in not_in_local
            THEN <<MissingRecord(game)>> \o rest
            ELSE rest

\* the early return on an empty not_in_local is missing
Mut_sync_missing_games(st, not_in_local, remote_library) ==
    LET missing == missing_games(not_in_local, remote_library)
        res == add_games_bulk(st, missing)
    IN [store |-> res.store, added |-> res.ids,
        calls |-> <<Call("add_games_bulk", res.ids, "", "")>>]

\* returns the store after the call, the ids added and the calls made
sync_missing_games(st, not_in_local, remote_library) ==
    IF not_in_local = {}
    THEN [store |-> st, added |-> {}, calls |-> NoCalls]
    ELSE LET missing == missing_games(not_in_local, remote_library)
             res == add_games_bulk(st, missing)
         IN [store |-> res.store, added |-> res.ids,
             calls |-> <<Call("add_games_bulk", res.ids, "", "")>>]

(***************************************************************************)
(* Sync.sync_game_details                                                  *)
(***************************************************************************)
\* Python truth value of a row's or a remote entry's field
Truthy(key, value) ==
    CASE key \in {"name", "slug", "runner", "configpath"} -> value # ""
      [] key = "installed" -> value
      [] OTHER -> value # 0

\* the comparison lets equal timestamps through
Mut_IsStale(game, local_game) == game.updated >= local_game.updated

\* "Sync updated": game['updated'] > local_game['updated']
IsStale(game, local_game) == game.updated > local_game.updated

\* "Sync new DB fields": a field that is empty locally and set in the remote entry
IsBackfill(game, local_game) ==
    \E key \in DOMAIN local_game :
        /\ ~(Truthy(key, local_game[key]) \/ key \notin DOMAIN game)
        /\ Truthy(key, game[key])

\* sync_icons is not consulted
Mut_details_icons(acc, slug, game_id, sync_icons) ==
    [acc EXCEPT !.calls = @ \o <<Call("download_icon", {}, slug, "banner"),
                                  Call("download_icon", {}, slug, "icon")>>,
                !.updated = @ \cup {game_id}]

\* the icon downloads and the updated.add(game_id) guarded by sync_icons
details_icons(acc, slug, game_id, sync_icons) ==
    IF sync_icons
    THEN [acc EXCEPT !.calls = @ \o <<Call("download_icon", {}, slug, "banner"),
                                      Call("download_icon", {}, slug, "icon")>>,
                     !.updated = @ \cup {game_id}]
    ELSE acc

\* the upsert passes the remote name instead of local_game['name']
Mut_details_step(acc, game) ==
    LET slug == game.slug
        local_id == get_game_by_field(acc.store, slug)
    IN IF local_id = 0 THEN acc
       ELSE LET local_game == acc.store[local_id]
                stale == IsStale(game, local_game)
                sync == stale \/ IsBackfill(game, local_game)
                sync_icons == stale
                res == add_or_update(acc.store, game.name, local_game.runner,
                                     slug, game.year, game.updated, game.steamid)
                upserted == [acc EXCEPT
                                !.store = res.store,
                                !.calls = Append(@, Call("add_or_update", {res.id}, slug,
                                                        IF stale THEN "stale" ELSE "backfill"))]
            IN IF ~sync THEN acc
               ELSE details_icons(upserted, slug, res.id, sync_icons)

\* one iteration of the loop over remote_library; acc is [store, updated, calls]
details_step(acc, game) ==
    LET slug == game.slug
        local_id == get_game_by_field(acc.store, slug)
    IN IF local_id = 0 THEN acc
       ELSE LET local_game == acc.store[local_id]
                stale == IsStale(game, local_game)
                sync == stale \/ IsBackfill(game, local_game)
                sync_icons == stale
                res == add_or_update(acc.store, local_game.name, local_game.runner,
                                     slug, game.year, game.updated, game.steamid)
                upserted == [acc EXCEPT
                                !.store = res.store,
                                !.calls = Append(@, Call("add_or_update", {res.id}, slug,
                                                        IF stale THEN "stale" ELSE "backfill"))]
            IN IF ~sync THEN acc
               ELSE details_icons(upserted, slug, res.id, sync_icons)

(***************************************************************************)
(* The reads of a scan: get_appmanifests(steamapps_path) per directory and *)
(* AppManifest(appmanifest_path) per file, up to the first file that does  *)
(* not parse.  The slug field of an AppManifest call holds the appID.      *)
(***************************************************************************)
RECURSIVE get_appmanifests(_)
get_appmanifests(steamapps_path) ==
    IF steamapps_path = {} THEN <<>>
    ELSE LET filename == CHOOSE m \in steamapps_path : TRUE
         IN <<filename>> \o get_appmanifests(steamapps_path \ {filename})

RECURSIVE manifest_reads(_, _)
manifest_reads(runner_name, filenames) ==
    IF filenames = <<>> THEN <<>>
    ELSE <<Call("AppManifest", {}, Head(filenames).steamid, runner_name)>> \o
         IF Head(filenames).parses
         THEN manifest_reads(runner_name, Tail(filenames))
         ELSE <<>>

RECURSIVE steamapps_reads(_, _)
steamapps_reads(runner_name, steamapps_paths) ==
    IF steamapps_paths = <<>> THEN <<>>
    ELSE <<Call("get_appmanifests", {}, "", runner_name)>> \o
         manifest_reads(runner_name, get_appmanifests(Head(steamapps_paths))) \o
         IF \A m \in Head(steamapps_paths) : m.parses
         THEN steamapps_reads(runner_name, Tail(steamapps_paths))
         ELSE <<>>

\* the second runner is not scanned before the loop over the library
Mut_scan_calls(runner_name, runner) ==
    IF runner_name = "winesteam" THEN <<>>
    ELSE <<Call("get_installed_steamapps", {}, "", runner_name)>> \o
         IF runner.is_installed
         THEN steamapps_reads(runner_name, runner.steamapps_dirs)
         ELSE <<>>

\* the calls of get_installed_steamapps(runner)
scan_calls(runner_name, runner) ==
    <<Call("get_installed_steamapps", {}, "", runner_name)>> \o
    IF runner.is_installed
    THEN steamapps_reads(runner_name, runner.steamapps_dirs)
    ELSE <<>>

\* AppManifest() raises on a file of a directory the scan reads
scan_raises(runner) ==
    /\ runner.is_installed
    /\ \E d \in DOMAIN runner.steamapps_dirs : \E m \in runner.steamapps_dirs[d] : ~m.parses

(***************************************************************************)
(* Sync.get_installed_steamapps and the steam module's persistence calls   *)
(***************************************************************************)
\* the scan lists the directories of a runner that is not installed
Mut_get_installed_steamapps(runner) ==
    UNION {{appmanifest.steamid :
                appmanifest \in {m \in runner.steamapps_dirs[d] : m.is_installed}} :
           d \in DOMAIN runner.steamapps_dirs}

\* the appIDs of the installed manifests, none when the runner is not installed
get_installed_steamapps(runner) ==
    IF ~runner.is_installed THEN {}
    ELSE UNION {{appmanifest.steamid :
                    appmanifest \in {m \in runner.steamapps_dirs[d] : m.is_installed}} :
                d \in DOMAIN runner.steamapps_dirs}

\* steam.mark_as_installed(steamid, runner_name, game_info): the row of game_info
\* becomes installed under runner_name; its id is returned
mark_as_installed(st, steamid, runner_name, game_info) ==
    [store |-> [st EXCEPT ![game_info.id] =
                    [@ EXCEPT !.installed = TRUE, !.runner = runner_name]],
     id |-> game_info.id]

\* steam.mark_as_uninstalled(game_info): the row of game_info becomes not installed
mark_as_uninstalled(st, game_info) ==
    [store |-> [st EXCEPT ![game_info.id] = [@ EXCEPT !.installed = FALSE]],
     id |-> game_info.id]

(***************************************************************************)
(* Sync.sync_steam_local                                                   *)
(***************************************************************************)
\* winesteam is forgotten
Mut_InstallRunner_SteamOnly(game_info, installed_in_steam, installed_in_winesteam) ==
    IF installed_in_steam THEN "steam" ELSE ""

\* the configpath is not checked
Mut_InstallRunner_NoConfigCheck(game_info, installed_in_steam, installed_in_winesteam) ==
    IF installed_in_steam THEN "steam"
    ELSE IF installed_in_winesteam THEN "winesteam" ELSE ""

\* winesteam is looked at before steam
Mut_InstallRunner_WinesteamFirst(game_info, installed_in_steam, installed_in_winesteam) ==
    IF installed_in_winesteam
    THEN (IF game_info.configpath = "" THEN "" ELSE "winesteam")
    ELSE IF installed_in_steam THEN "steam" ELSE ""

\* "Set installed": the runner the game is found installed under, "" when the loop continues
InstallRunner(game_info, installed_in_steam, installed_in_winesteam) ==
    IF installed_in_steam THEN "steam"
    ELSE IF installed_in_winesteam
         THEN (IF game_info.configpath = "" THEN "" ELSE "winesteam")
         ELSE ""

\* winesteam games are never uninstalled
Mut_UninstallAllowed_SteamOnly(runner, steam_is_installed, winesteam_is_installed) ==
    runner = "steam" /\ steam_is_installed

\* is_installed() is not asked
Mut_UninstallAllowed_NoHostCheck(runner, steam_is_installed, winesteam_is_installed) ==
    runner \in {"steam", "winesteam"}

\* "Set uninstalled": the three continue statements
UninstallAllowed(runner, steam_is_installed, winesteam_is_installed) ==
    /\ runner \in {"steam", "winesteam"}
    /\ ~(runner = "steam" /\ ~steam_is_installed)
    /\ ~(runner = "winesteam" /\ ~winesteam_is_installed)

\* one iteration of the loop over self.library; acc is [store, installed, uninstalled, calls]
local_step(acc, game_info, hst, installed_steamapps, installed_winesteamapps) ==
    LET runner == game_info.runner
        steamid == Str(game_info.steamid)
        installed_in_steam == steamid \in installed_steamapps
        installed_in_winesteam == steamid \in installed_winesteamapps
        runner_name == InstallRunner(game_info, installed_in_steam, installed_in_winesteam)
        ins == mark_as_installed(acc.store, steamid, runner_name, game_info)
        unins == mark_as_uninstalled(acc.store, game_info)
    IN IF ~game_info.installed
       THEN IF runner_name = "" THEN acc
            ELSE [acc EXCEPT
                    !.store = ins.store,
                    !.installed = @ \cup {ins.id},
                    !.calls = Append(@, Call("mark_as_installed", {ins.id},
                                             game_info.slug, runner_name))]
       ELSE IF ~(installed_in_steam \/ installed_in_winesteam)
            THEN IF ~UninstallAllowed(runner, hst.steam.is_installed,
                                      hst.winesteam.is_installed)
                 THEN acc
                 ELSE [acc EXCEPT
                         !.store = unins.store,
                         !.uninstalled = @ \cup {unins.id},
                         !.calls = Append(@, Call("mark_as_uninstalled", {unins.id},
                                                  game_info.slug, ""))]
            ELSE acc

(***************************************************************************)
(* The operations of a Sync object, step by step                           *)
(***************************************************************************)
\* the exception of api.get_library() is not caught as an empty library
Mut_remote_library == remote

\* remote_library of sync_from_remote: the library fetched, {} after an exception
remote_library == IF fetchOk THEN remote ELSE <<>>

\* the library is not reloaded after games were added
Mut_library_after_remote(lib, st, added_ids) == lib

\* "if added: self.library = pga.get_games()"
library_after_remote(lib, st, added_ids) ==
    IF added_ids # {} THEN get_games(st) ELSE lib

NoResults ==
    /\ added' = {} /\ updated' = {} /\ installed' = {} /\ uninstalled' = {}

\* the object after Sync(): the library is read, no operation has run
Constructed ==
    /\ library = get_games(store)
    /\ pc = "idle"
    /\ op = "construct"
    /\ fetchOk = TRUE
    /\ prevOp = [op |-> "none", fetchOk |-> TRUE]
    /\ idx = 1
    /\ added = {} /\ updated = {} /\ installed = {} /\ uninstalled = {}
    /\ calls = NoCalls

Init ==
    /\ InitRemoteCases \/ InitLocalCases \/ InitTwoGamesCases
    /\ Constructed

\* the caller is free to call an operation: the last one returned or raised
Callable == pc \in {"idle", "raised"}

\* Sync(): a new object reads the library from the store
Construct ==
    /\ Callable
    /\ op # "construct"
    /\ library' = get_games(store)
    /\ op' = "construct"
    /\ fetchOk' = TRUE
    /\ prevOp' = [op |-> "none", fetchOk |-> TRUE]
    /\ idx' = 1
    /\ NoResults
    /\ calls' = NoCalls
    /\ pc' = "idle"
    /\ UNCHANGED <<store, remote, host>>

\* sync_all() or sync_from_remote() is called: the remote library is fetched
FetchRemote(operation, ok) ==
    /\ Callable
    /\ op' = operation
    /\ fetchOk' = ok
    /\ prevOp' = [op |-> IF pc = "raised" THEN "raised" ELSE op, fetchOk |-> fetchOk]
    /\ NoResults
    /\ calls' = <<Call("get_library", {}, "", IF ok THEN "ok" ELSE "error")>>
    /\ idx' = 1
    /\ pc' = "sync_missing_games"
    /\ UNCHANGED <<store, library, remote, host>>

\* added = self.sync_missing_games(not_in_local, remote_library)
SyncMissingGames ==
    /\ pc = "sync_missing_games"
    /\ LET local_slugs == {library[k].slug : k \in DOMAIN library}
           remote_slugs == {remote_library[k].slug : k \in DOMAIN remote_library}
           not_in_local == remote_slugs \ local_slugs
       IN \E m \in {sync_missing_games(store, not_in_local, remote_library)} :
            /\ store' = m.store
            /\ added' = m.added
            /\ calls' = calls \o m.calls
    /\ idx' = 1
    /\ pc' = "sync_game_details"
    /\ UNCHANGED <<library, remote, host, op, fetchOk, prevOp,
                   updated, installed, uninstalled>>

\* one iteration of the loop of sync_game_details
SyncGameDetailsStep ==
    /\ pc = "sync_game_details"
    /\ idx <= Len(remote_library)
    /\ \E d \in {details_step([store |-> store, updated |-> updated, calls |-> calls],
                              remote_library[idx])} :
            /\ store' = d.store
            /\ updated' = d.updated
            /\ calls' = d.calls
    /\ idx' = idx + 1
    /\ UNCHANGED <<library, remote, host, pc, op, fetchOk, prevOp,
                   added, installed, uninstalled>>

\* sync_game_details returns; sync_from_remote reloads the library if games were added
SyncFromRemoteReturn ==
    /\ pc = "sync_game_details"
    /\ idx > Len(remote_library)
    /\ library' = library_after_remote(library, store, added)
    /\ pc' = IF op = "sync_all" THEN "sync_local" ELSE "idle"
    /\ idx' = 1
    /\ UNCHANGED <<store, remote, host, op, fetchOk, prevOp,
                   added, updated, installed, uninstalled, calls>>

\* sync_local() is called on its own
SyncLocalCall ==
    /\ Callable
    /\ op' = "sync_local"
    /\ fetchOk' = TRUE
    /\ prevOp' = [op |-> IF pc = "raised" THEN "raised" ELSE op, fetchOk |-> fetchOk]
    /\ NoResults
    /\ calls' = NoCalls
    /\ idx' = 1
    /\ pc' = "sync_local"
    /\ UNCHANGED <<store, library, remote, host>>

\* sync_steam_local scans the installed steamapps of both runners
installed_steamapps == get_installed_steamapps(host.steam)
installed_winesteamapps == get_installed_steamapps(host.winesteam)

ScanSteamapps ==
    /\ pc = "sync_local"
    /\ ~scan_raises(host.steam)
    /\ ~scan_raises(host.winesteam)
    /\ calls' = calls \o scan_calls("steam", host.steam)
                      \o scan_calls("winesteam", host.winesteam)
    /\ idx' = 1
    /\ pc' = "sync_steam_local"
    /\ UNCHANGED <<store, library, remote, host, op, fetchOk, prevOp,
                   added, updated, installed, uninstalled>>

\* one iteration of the loop of sync_steam_local
SyncSteamLocalStep ==
    /\ pc = "sync_steam_local"
    /\ idx <= Len(library)
    /\ \E l \in {local_step([store |-> store, installed |-> installed,
                             uninstalled |-> uninstalled, calls |-> calls],
                            library[idx], host, installed_steamapps,
                            installed_winesteamapps)} :
            /\ store' = l.store
            /\ installed' = l.installed
            /\ uninstalled' = l.uninstalled
            /\ calls' = l.calls
    /\ idx' = idx + 1
    /\ UNCHANGED <<library, remote, host, pc, op, fetchOk, prevOp, added, updated>>

\* sync_steam_local returns, and with it sync_local or sync_all
SyncSteamLocalReturn ==
    /\ pc = "sync_steam_local"
    /\ idx > Len(library)
    /\ pc' = "idle"
    /\ idx' = 1
    /\ UNCHANGED <<store, library, remote, host, op, fetchOk, prevOp,
                   added, updated, installed, uninstalled, calls>>

Next ==
    \/ Construct
    \/ \E operation \in {"sync_all", "sync_from_remote"}, ok \in BOOLEAN :
            FetchRemote(operation, ok)
    \/ SyncMissingGames
    \/ SyncGameDetailsStep
    \/ SyncFromRemoteReturn
    \/ SyncLocalCall
    \/ ScanSteamapps
    \/ SyncSteamLocalStep
    \/ SyncSteamLocalReturn

Spec == Init /\ [][Next]_vars

(***************************************************************************)
(* The same program with the failures of its collaborators: a store write  *)
(* that raises, and an appmanifest that AppManifest() cannot parse.  No    *)
(* call of sync.py to pga, steam or AppManifest is inside a try block, so  *)
(* the exception leaves the operation: nothing is returned.                *)
(***************************************************************************)
\* a library with any installation state against a small remote library, on a
\* host where a runner may hold an unreadable manifest
InitFaultCases ==
    /\ store \in {<<>>} \cup {<<r>> : r \in InstallRows}
    /\ remote \in {<<>>} \cup {<<e>> : e \in {x \in RemoteEntries :
                                                x.year = 1993 /\ x.updated = 1}}
    /\ host \in [steam : RunnerHosts \cup {HasCorruptManifest},
                  winesteam : RunnerHosts \cup {HasCorruptManifest}]

InitFaults ==
    /\ InitFaultCases
    /\ Constructed

\* the exception of call_name, raised after the reads logged, ends the operation
Raise(reads, call_name, error) ==
    /\ calls' = calls \o reads \o <<Call("raise", {}, call_name, error)>>
    /\ pc' = "raised"
    /\ idx' = 1
    /\ NoResults
    /\ UNCHANGED <<store, library, remote, host, op, fetchOk, prevOp>>

\* remote_slugs.difference(local_slugs) of sync_from_remote
NotInLocal ==
    {remote_library[k].slug : k \in DOMAIN remote_library} \
        {library[k].slug : k \in DOMAIN library}

\* pga.add_games_bulk(missing) raises
AddGamesBulkFails ==
    /\ pc = "sync_missing_games"
    /\ NotInLocal # {}
    /\ Raise(NoCalls, "add_games_bulk", "StoreWriteError")

\* pga.add_or_update(...) raises in an iteration that decided an upsert
AddOrUpdateFails ==
    /\ pc = "sync_game_details"
    /\ idx <= Len(remote_library)
    /\ \E d \in {details_step([store |-> store, updated |-> updated, calls |-> calls],
                              remote_library[idx])} :
            /\ Len(d.calls) > Len(calls)
            /\ d.calls[Len(calls) + 1].call = "add_or_update"
    /\ Raise(NoCalls, "add_or_update", "StoreWriteError")

\* steam.mark_as_installed or steam.mark_as_uninstalled raises in an iteration
\* that decided a transition
MarkFails ==
    /\ pc = "sync_steam_local"
    /\ idx <= Len(library)
    /\ \E l \in {local_step([store |-> store, installed |-> installed,
                             uninstalled |-> uninstalled, calls |-> calls],
                            library[idx], host, installed_steamapps,
                            installed_winesteamapps)} :
            /\ Len(l.calls) > Len(calls)
            /\ Raise(NoCalls, l.calls[Len(calls) + 1].call, "StoreWriteError")

\* AppManifest(appmanifest_path) raises in the scan of the first runner that
\* holds a manifest it cannot parse
ScanFails ==
    /\ pc = "sync_local"
    /\ scan_raises(host.steam) \/ scan_raises(host.winesteam)
    /\ Raise(IF scan_raises(host.steam)
             THEN scan_calls("steam", host.steam)
             ELSE scan_calls("steam", host.steam) \o
                  scan_calls("winesteam", host.winesteam),
             "AppManifest", "ManifestParseError")

NextFaults ==
    \/ Next
    \/ AddGamesBulkFails
    \/ AddOrUpdateFails
    \/ MarkFails
    \/ ScanFails

SpecFaults == InitFaults /\ [][NextFaults]_vars

(***************************************************************************)
(* Vocabulary of the properties                                            *)
(***************************************************************************)
Returned(operation) == pc = "idle" /\ op = operation

CallsNamed(name) == {k \in DOMAIN calls : calls[k].call = name}

\* the rows of the snapshot the loop of sync_steam_local has gone through
Processed ==
    IF pc = "sync_steam_local" THEN 1..(idx - 1)
    ELSE IF pc = "idle" /\ op \in {"sync_all", "sync_local"} THEN DOMAIN library
    ELSE {}

\* the appIDs the scanner reports for a runner name
ScannerReports(runner_name) ==
    IF runner_name \in DOMAIN host THEN get_installed_steamapps(host[runner_name]) ELSE {}

\* the install and uninstall transitions section 4.4 of the specification asks of a snapshot
InstallCandidates ==
    {library[k].id : k \in {n \in DOMAIN library :
        /\ ~library[n].installed
        /\ \/ Str(library[n].steamid) \in ScannerReports("steam")
           \/ /\ Str(library[n].steamid) \in ScannerReports("winesteam")
              /\ library[n].configpath # ""}}

UninstallCandidates ==
    {library[k].id : k \in {n \in DOMAIN library :
        /\ library[n].installed
        /\ Str(library[n].steamid) \notin ScannerReports("steam")
        /\ Str(library[n].steamid) \notin ScannerReports("winesteam")
        /\ library[n].runner \in {"steam", "winesteam"}
        /\ host[library[n].runner].is_installed}}

(***************************************************************************)
(* C1                                                                      *)
(***************************************************************************)
\* C1: when sync_all has run twice in succession on one Sync object, with the
\* same remote library, store and manifests, the second run returns four
\* empty sets.
C1_SecondSyncAllIsEmpty ==
    (/\ Returned("sync_all")
     /\ prevOp = [op |-> "sync_all", fetchOk |-> fetchOk])
    => (added = {} /\ updated = {} /\ installed = {} /\ uninstalled = {})

(***************************************************************************)
(* C2                                                                      *)
(***************************************************************************)
\* C2: in every pass of sync_from_remote the sets added and updated have no
\* identifier in common.
C2_AddedUpdatedDisjoint == added \cap updated = {}

(***************************************************************************)
(* C3                                                                      *)
(***************************************************************************)
\* C3: when the fetch of the remote library fails, sync_from_remote returns
\* two empty sets and makes no insert, no upsert and no icon download, and
\* the sync_local pass that follows (on its own or inside sync_all) makes
\* exactly the install and uninstall transitions of its snapshot.
C3_OutageTolerated ==
    /\ (op \in {"sync_all", "sync_from_remote"} /\ ~fetchOk)
        => /\ added = {} /\ updated = {}
           /\ CallsNamed("add_games_bulk") = {}
           /\ CallsNamed("add_or_update") = {}
           /\ CallsNamed("download_icon") = {}
    /\ (\/ Returned("sync_all") /\ ~fetchOk
        \/ Returned("sync_local") /\ prevOp = [op |-> "sync_from_remote", fetchOk |-> FALSE])
        => /\ installed = InstallCandidates
           /\ uninstalled = UninstallCandidates

\* a failed fetch of a non-empty remote library with games missing locally,
\* followed by a sync_local that installs a game
C3_Witness ==
    /\ Returned("sync_local")
    /\ prevOp = [op |-> "sync_from_remote", fetchOk |-> FALSE]
    /\ \E k \in DOMAIN remote : \A n \in DOMAIN library : library[n].slug # remote[k].slug
    /\ installed # {}

(***************************************************************************)
(* C4                                                                      *)
(***************************************************************************)
\* the calls a step adds to those of the running operation
NewCalls == IF Callable THEN calls' ELSE SubSeq(calls', Len(calls) + 1, Len(calls'))

\* the step is an iteration of sync_game_details on a remote entry whose slug is local
DetailsOnLocalGame ==
    /\ pc = "sync_game_details"
    /\ idx <= Len(remote_library)
    /\ get_game_by_field(store, remote_library[idx].slug) # 0

\* the remote entry and the local row of that iteration
DetailsGame == remote_library[idx]
DetailsLocal == store[get_game_by_field(store, remote_library[idx].slug)]

UpsertRequested ==
    \E k \in DOMAIN NewCalls :
        NewCalls[k].call = "add_or_update" /\ NewCalls[k].slug = DetailsGame.slug

\* some field is empty locally and set in the remote entry
LocalFieldToFill ==
    \/ DetailsLocal.name = "" /\ DetailsGame.name # ""
    \/ DetailsLocal.year = 0 /\ DetailsGame.year # 0
    \/ DetailsLocal.steamid = 0 /\ DetailsGame.steamid # 0
    \/ DetailsLocal.updated = 0 /\ DetailsGame.updated # 0

\* C4: for a remote entry whose slug is local, an upsert is requested if and
\* only if the remote entry is newer than the local row or, otherwise, some
\* field is empty locally and set remotely; when neither holds no upsert is
\* requested and the set updated does not grow.
C4_StalenessPrecedence ==
    [][DetailsOnLocalGame =>
        /\ UpsertRequested <=>
              (DetailsGame.updated > DetailsLocal.updated \/ LocalFieldToFill)
        /\ (DetailsGame.updated <= DetailsLocal.updated /\ ~LocalFieldToFill)
              => (updated' = updated /\ NewCalls = <<>>)]_vars

\* an iteration has just left alone a local row that is newer than the remote
\* entry and has another name
C4_Witness ==
    /\ pc = "sync_game_details"
    /\ idx > 1
    /\ LET game == remote_library[idx - 1]
           id == get_game_by_field(store, game.slug)
       IN /\ id # 0
          /\ game.updated < store[id].updated
          /\ store[id].name # ""
          /\ store[id].name # game.name
    /\ CallsNamed("add_or_update") = {}
    /\ updated = {}

(***************************************************************************)
(* C5                                                                      *)
(***************************************************************************)
IconCalls == {k \in DOMAIN NewCalls : NewCalls[k].call = "download_icon"}

\* C5: a step downloads icons if and only if it is an iteration of
\* sync_game_details that finds the remote entry newer than the local row;
\* the downloads are then the banner and the icon of that slug.  An upsert
\* decided by an empty local field, an inserted row and an unchanged row
\* download nothing.
C5_IconsFollowStaleness ==
    [][/\ IconCalls # {} <=>
            (DetailsOnLocalGame /\ DetailsGame.updated > DetailsLocal.updated)
       /\ IconCalls # {} =>
            /\ UpsertRequested
            /\ \A k \in IconCalls : NewCalls[k].slug = DetailsGame.slug
            /\ {NewCalls[k].info : k \in IconCalls} = {"banner", "icon"}]_vars

\* one pass has made an upsert by each rule, and downloaded the icons once
C5_Witness ==
    /\ \E k \in CallsNamed("add_or_update") : calls[k].info = "backfill"
    /\ \E k \in CallsNamed("add_or_update") : calls[k].info = "stale"
    /\ Cardinality(CallsNamed("download_icon")) = 2

(***************************************************************************)
(* C6                                                                      *)
(***************************************************************************)
\* C6: the identifier returned by every upsert sync_game_details requests, by
\* either rule, is in the set updated.
C6_UpsertsAreReported ==
    \A k \in CallsNamed("add_or_update") : calls[k].ids \subseteq updated

(***************************************************************************)
(* C7                                                                      *)
(***************************************************************************)
MarkedInstalled(id) == \E k \in CallsNamed("mark_as_installed") : id \in calls[k].ids
MarkedUninstalled(id) == \E k \in CallsNamed("mark_as_uninstalled") : id \in calls[k].ids

\* a snapshot row that is not installed while the scanner of its own runner
\* reports its steamid (and that has a configpath if the runner is winesteam)
InstallableUnderOwnRunner(game_info) ==
    /\ ~game_info.installed
    /\ game_info.runner \in {"steam", "winesteam"}
    /\ Str(game_info.steamid) \in ScannerReports(game_info.runner)
    /\ game_info.runner = "winesteam" => game_info.configpath # ""

\* C7: every snapshot row that is not installed while the scanner of its
\* runner reports it (with a configpath if the runner is winesteam) gets a
\* mark_as_installed call, its id is in installed, and its row in the store
\* is installed.
C7_InstallTransition ==
    \A k \in Processed :
        InstallableUnderOwnRunner(library[k]) =>
            /\ MarkedInstalled(library[k].id)
            /\ library[k].id \in installed
            /\ store[library[k].id].installed

\* sync_local has returned after installing a winesteam game found under winesteam only
C7_Witness ==
    /\ Returned("sync_local")
    /\ \E k \in DOMAIN library :
        /\ InstallableUnderOwnRunner(library[k])
        /\ library[k].runner = "winesteam"
        /\ Str(library[k].steamid) \notin ScannerReports("steam")
        /\ library[k].id \in installed

(***************************************************************************)
(* C8                                                                      *)
(***************************************************************************)
\* an installed winesteam row without configpath, that no scanner reports,
\* while winesteam is installed on the host
GoneWinesteamGameWithoutConfig(game_info) ==
    /\ game_info.runner = "winesteam"
    /\ game_info.installed
    /\ game_info.configpath = ""
    /\ Str(game_info.steamid) \notin ScannerReports("steam")
    /\ Str(game_info.steamid) \notin ScannerReports("winesteam")
    /\ host.winesteam.is_installed

\* C8: an installed winesteam row with an empty configpath, whose steamid is
\* in neither scanner's result while winesteam is installed on the host, gets
\* a mark_as_uninstalled call and its id is in uninstalled; a row is never
\* kept from the uninstall transition by its configpath.
C8_UninstallIgnoresConfigPath ==
    \A k \in Processed :
        /\ GoneWinesteamGameWithoutConfig(library[k]) =>
            /\ MarkedUninstalled(library[k].id)
            /\ library[k].id \in uninstalled
        /\ (library[k].installed /\ library[k].id \in UninstallCandidates) =>
            library[k].id \in uninstalled

C8_Witness ==
    /\ Returned("sync_local")
    /\ \E k \in DOMAIN library :
        /\ GoneWinesteamGameWithoutConfig(library[k])
        /\ library[k].id \in uninstalled

(***************************************************************************)
(* C9                                                                      *)
(***************************************************************************)
\* the snapshot row with an id
SnapshotRows(id) == {library[k] : k \in {n \in DOMAIN library : library[n].id = id}}

\* C9: a row whose runner is not installed on the host, or whose runner is
\* neither steam nor winesteam, gets no mark_as_uninstalled call and is not
\* in uninstalled.
C9_NoUninstallWithoutIntegration ==
    \A id \in uninstalled \cup UNION {calls[k].ids : k \in CallsNamed("mark_as_uninstalled")} :
        /\ SnapshotRows(id) # {}
        /\ \A game_info \in SnapshotRows(id) :
            /\ game_info.runner \in {"steam", "winesteam"}
            /\ host[game_info.runner].is_installed

\* sync_local has gone through an installed steam game that no scanner reports,
\* on a host where steam is not installed and winesteam is
C9_Witness ==
    /\ Returned("sync_local")
    /\ ~host.steam.is_installed
    /\ host.winesteam.is_installed
    /\ \E k \in DOMAIN library :
        /\ library[k].installed
        /\ library[k].runner = "steam"
        /\ Str(library[k].steamid) \notin ScannerReports("winesteam")
    /\ uninstalled = {}

MarkedInstalledUnder(id, runner_name) ==
    \E k \in CallsNamed("mark_as_installed") :
        id \in calls[k].ids /\ calls[k].info = runner_name

\* C11: a row that is not installed, whose steamid only the winesteam scanner
\* reports and that has no configpath gets no install transition; a row that
\* is not installed and whose steamid the steam scanner reports is marked
\* installed under steam, with or without a configpath, also when the
\* winesteam scanner reports the steamid too.
C11_ConfigPathGuardsWinesteamOnly ==
    \A k \in Processed :
        ~library[k].installed =>
            /\ (/\ Str(library[k].steamid) \in ScannerReports("winesteam")
                /\ Str(library[k].steamid) \notin ScannerReports("steam")
                /\ library[k].configpath = "")
                => (~MarkedInstalled(library[k].id) /\ library[k].id \notin installed)
            /\ Str(library[k].steamid) \in ScannerReports("steam")
                => /\ MarkedInstalledUnder(library[k].id, "steam")
                   /\ ~MarkedInstalledUnder(library[k].id, "winesteam")
                   /\ library[k].id \in installed

\* a game without configpath that both scanners report has been installed under steam
C11_Witness ==
    /\ Returned("sync_local")
    /\ \E k \in DOMAIN library :
        /\ ~library[k].installed
        /\ library[k].configpath = ""
        /\ Str(library[k].steamid) \in ScannerReports("steam")
        /\ Str(library[k].steamid) \in ScannerReports("winesteam")
        /\ MarkedInstalledUnder(library[k].id, "steam")

(***************************************************************************)
(* C12                                                                     *)
(***************************************************************************)
\* the snapshot holds every row added, and is the store's content when
\* sync_local starts inside a sync_all that added rows
InsertedAreInSnapshot ==
    /\ (op = "sync_all" /\ pc \in {"sync_local", "sync_steam_local", "idle"})
        => \A id \in added : SnapshotRows(id) # {}
    /\ (op = "sync_all" /\ pc = "sync_local" /\ added # {})
        => library = get_games(store)

\* C12 as stated: in sync_all the rows added by the remote phase are in the
\* snapshot sync_steam_local iterates, and an added row whose steamid a
\* scanner reports installed is marked installed in the same pass.
C12_InsertedGetInstalled ==
    /\ InsertedAreInSnapshot
    /\ Returned("sync_all") =>
        \A id \in added :
            (Str(store[id].steamid) \in
                ScannerReports("steam") \cup ScannerReports("winesteam"))
            => id \in installed

\* C12 amended: in sync_all the rows added by the remote phase are in the
\* snapshot sync_steam_local iterates; an added row whose steamid the steam
\* scanner reports is marked installed in the same pass, and an added row
\* whose steamid only the winesteam scanner reports is not, since an added
\* row has no configpath.
C12_InsertedGetInstalledUnderSteam ==
    /\ InsertedAreInSnapshot
    /\ Returned("sync_all") =>
        \A id \in added :
            /\ Str(store[id].steamid) \in ScannerReports("steam")
                => (id \in installed /\ MarkedInstalledUnder(id, "steam"))
            /\ Str(store[id].steamid) \notin ScannerReports("steam")
                => id \notin installed

\* a sync_all has added a game and installed it
C12_Witness ==
    /\ Returned("sync_all")
    /\ added \cap installed # {}

(***************************************************************************)
(* C13                                                                     *)
(***************************************************************************)
\* C13: every snapshot row sync_steam_local is about to go through agrees
\* with the row of the store on steamid, runner, installed and configpath.
C13_SnapshotIsFresh ==
    pc = "sync_steam_local" =>
        \A k \in DOMAIN library :
            k >= idx =>
                /\ library[k].steamid = store[library[k].id].steamid
                /\ library[k].runner = store[library[k].id].runner
                /\ library[k].installed = store[library[k].id].installed
                /\ library[k].configpath = store[library[k].id].configpath

\* the remote entries whose slug no row of the snapshot carries
MissingFromSnapshot ==
    {k \in DOMAIN remote_library :
        \A n \in DOMAIN library : library[n].slug # remote_library[k].slug}

BulkCalls(log) == {k \in DOMAIN log : log[k].call = "add_games_bulk"}

\* the rows the step appended to the store, in order
NewRows == SubSeq(store', Len(store) + 1, Len(store'))

(***************************************************************************)
(* C16: if no two rows of the store share a slug before a pass, no two     *)
(* rows share a slug after any sequence of sync_from_remote / sync_all     *)
(* passes, whatever the remote library lists, several entries under one    *)
(* missing slug included.  Every initial store has distinct slugs.         *)
(***************************************************************************)
C16_SlugsAreUnique ==
    \A i \in DOMAIN store : \A j \in DOMAIN store :
        store[i].slug = store[j].slug => i = j

(***************************************************************************)
(* C18: in a pass of sync_from_remote add_games_bulk is called at most     *)
(* once, and only when remote_slugs - local_slugs is not empty; the batch  *)
(* holds a record for a remote entry exactly when the entry's slug is not  *)
(* in the snapshot; added is the set of ids the call returned, and is      *)
(* empty when no call is made.                                             *)
(***************************************************************************)
C18_OneBatchPerPass ==
    [][/\ Cardinality(BulkCalls(calls')) <= 1
       /\ pc # "sync_missing_games" => BulkCalls(NewCalls) = {}
       /\ pc = "sync_missing_games" =>
            IF MissingFromSnapshot = {}
            THEN /\ BulkCalls(NewCalls) = {}
                 /\ added' = {}
                 /\ store' = store
            ELSE /\ Cardinality(BulkCalls(NewCalls)) = 1
                 /\ \A k \in BulkCalls(NewCalls) : NewCalls[k].ids = added'
                 /\ added' = {NewRows[n].id : n \in DOMAIN NewRows}
                 /\ Len(NewRows) = Cardinality(MissingFromSnapshot)
                 /\ \A k \in MissingFromSnapshot : \E n \in DOMAIN NewRows :
                        /\ NewRows[n].slug = remote_library[k].slug
                        /\ NewRows[n].name = remote_library[k].name
                        /\ NewRows[n].year = remote_library[k].year
                        /\ NewRows[n].updated = remote_library[k].updated
                        /\ NewRows[n].steamid = remote_library[k].steamid
                        /\ Cardinality({m \in MissingFromSnapshot : m <= k}) = n
                 /\ SubSeq(store', 1, Len(store)) = store]_vars

\* a pass inserted a batch for one entry of a remote library and none for the other
C18_Witness ==
    /\ Returned("sync_from_remote")
    /\ BulkCalls(calls) # {}
    /\ added # {}
    /\ Cardinality(added) < Len(remote_library)

(***************************************************************************)
(* C20: for every row of the store and every pass of sync_from_remote the  *)
(* row's updated after the pass is at least its updated before the pass,   *)
(* also when the upsert is decided by the backfill rule with the remote    *)
(* updated below the local one.  Stated on every step of a pass.           *)
(***************************************************************************)
C20_UpdatedNeverMovesBack ==
    [][\A id \in DOMAIN store : store'[id].updated >= store[id].updated]_vars

\* the calls of the log made in the scan of a runner
ScanReads(runner_name, name) ==
    {k \in DOMAIN calls : calls[k].call = name /\ calls[k].info = runner_name}

\* the appIDs of the manifests on disk whose installed flag is true
InstalledOnDisk(runner) ==
    {m.steamid : m \in {f \in UNION {runner.steamapps_dirs[d] :
                                        d \in DOMAIN runner.steamapps_dirs} :
                            f.is_installed}}

(***************************************************************************)
(* C17: get_installed_steamapps(runner) returns exactly the appIDs of the  *)
(* manifests, over all steamapps directories of the runner, whose          *)
(* installed flag is true, and no appID when the runner is not installed;  *)
(* in that case no directory is listed and no manifest is read.            *)
(***************************************************************************)
C17_ScannerResult ==
    \A runner_name \in {"steam", "winesteam"} :
        LET runner == host[runner_name] IN
        /\ runner.is_installed =>
                get_installed_steamapps(runner) = InstalledOnDisk(runner)
        /\ ~runner.is_installed => get_installed_steamapps(runner) = {}
        /\ pc = "sync_steam_local" =>
                /\ Cardinality(ScanReads(runner_name, "get_installed_steamapps")) = 1
                /\ ~runner.is_installed =>
                        /\ ScanReads(runner_name, "get_appmanifests") = {}
                        /\ ScanReads(runner_name, "AppManifest") = {}
                /\ runner.is_installed =>
                        /\ Cardinality(ScanReads(runner_name, "get_appmanifests")) =
                                Len(runner.steamapps_dirs)
                        /\ \A d \in DOMAIN runner.steamapps_dirs :
                            \A m \in runner.steamapps_dirs[d] :
                                \E k \in ScanReads(runner_name, "AppManifest") :
                                    calls[k].slug = m.steamid

\* a scan of a runner that is not installed, with an installed manifest on disk,
\* next to a scan that reports a game from the second runner's only directory
C17_Witness ==
    /\ pc = "sync_steam_local"
    /\ ~host.steam.is_installed
    /\ InstalledOnDisk(host.steam) # {}
    /\ get_installed_steamapps(host.steam) = {}
    /\ get_installed_steamapps(host.winesteam) # {}

StoreWrites == {"add_games_bulk", "add_or_update", "mark_as_installed",
                "mark_as_uninstalled"}

Raises == {k \in DOMAIN calls : calls[k].call = "raise"}

(***************************************************************************)
(* C14: a store write (add_games_bulk, add_or_update, mark_as_installed,   *)
(* mark_as_uninstalled) that fails stops the pass at that point: no        *)
(* further call is made, no result sets are returned and the failure       *)
(* reaches the caller; no error of another class aborts a pass.            *)
(***************************************************************************)
C14_OnlyStoreWriteFailuresAbort ==
    /\ \A k \in Raises :
            /\ k = Len(calls)
            /\ pc = "raised"
            /\ calls[k].slug \in StoreWrites
            /\ calls[k].info = "StoreWriteError"
    /\ pc = "raised" =>
            /\ Raises # {}
            /\ added = {} /\ updated = {} /\ installed = {} /\ uninstalled = {}

(***************************************************************************)
(* C15: when AppManifest() fails on one manifest during                    *)
(* get_installed_steamapps the scan does not fail: the file is skipped,    *)
(* the appIDs of the other installed manifests are still returned and the  *)
(* pass goes on.  Stated on the log: the read of an unreadable manifest is *)
(* never followed by an exception leaving the operation.                   *)
(***************************************************************************)
C15_ParseErrorIsLocal ==
    \A runner_name \in {"steam", "winesteam"} :
        \A k \in ScanReads(runner_name, "AppManifest") :
            (\E d \in DOMAIN host[runner_name].steamapps_dirs :
                \E m \in host[runner_name].steamapps_dirs[d] :
                    m.steamid = calls[k].slug /\ ~m.parses)
            => pc # "raised"

\* in the log every insert or upsert follows the fetch, and every mark follows
\* the scans of both runners and all their reads
WritesFollowReads ==
    \A k \in DOMAIN calls :
        /\ calls[k].call \in {"add_games_bulk", "add_or_update"} =>
                \E j \in 1..(k - 1) : calls[j].call = "get_library"
        /\ calls[k].call \in {"mark_as_installed", "mark_as_uninstalled"} =>
                /\ \A runner_name \in {"steam", "winesteam"} :
                        \E j \in 1..(k - 1) :
                            /\ calls[j].call = "get_installed_steamapps"
                            /\ calls[j].info = runner_name
                /\ \A j \in DOMAIN calls :
                        calls[j].call \in {"get_installed_steamapps", "get_appmanifests",
                                           "AppManifest"} => j < k

\* the step is the fetch or the scans, or a step of a remote phase whose fetch failed
ReadPhaseStep ==
    \/ Callable
    \/ pc = "sync_local"
    \/ pc \in {"sync_missing_games", "sync_game_details"} /\ ~fetchOk

(***************************************************************************)
(* C19: in sync_from_remote no insert or upsert is issued before the fetch *)
(* of the remote library has completed, as a result or as a failure taken  *)
(* for an empty library; in sync_steam_local no mark_as_installed or       *)
(* mark_as_uninstalled is issued before the scans of both runners have     *)
(* completed; a fetch or a scan, failed or not, leaves the store as it was *)
(* before it, and a failed scan is followed by no mark.                    *)
(***************************************************************************)
C19_StoreWrittenAfterReads ==
    [][/\ WritesFollowReads'
       /\ ReadPhaseStep => store' = store
       /\ (pc' = "raised" /\ calls'[Len(calls')].info = "ManifestParseError") =>
            \A k \in DOMAIN calls' :
                calls'[k].call \notin {"mark_as_installed", "mark_as_uninstalled"}]_vars

\* a sync_all that inserted after its fetch and marked after its scans
C19_Witness ==
    /\ Returned("sync_all")
    /\ added # {}
    /\ installed # {}
    /\ CallsNamed("get_appmanifests") # {}

\* the step belongs to the remote phase, or to the installation phase
RemotePhaseStep == pc \in {"sync_missing_games", "sync_game_details"}
LocalPhaseStep == pc \in {"sync_local", "sync_steam_local"}

NewCallsNamed(names) == {k \in DOMAIN NewCalls : NewCalls[k].call \in names}

(***************************************************************************)
(* C21: after one pass of sync_from_remote, a second pass with the same    *)
(* remote library issues no store write (no add_games_bulk, no             *)
(* add_or_update) and no icon download; a backfill upsert fills the empty  *)
(* field that decided it, the name included, so the entry is not selected  *)
(* again.                                                                  *)
(***************************************************************************)
C21_SecondRemotePassWritesNothing ==
    (/\ Returned("sync_from_remote")
     /\ prevOp = [op |-> "sync_from_remote", fetchOk |-> fetchOk])
    => /\ CallsNamed("add_games_bulk") = {}
       /\ CallsNamed("add_or_update") = {}
       /\ CallsNamed("download_icon") = {}

(***************************************************************************)
(* C22: sync_from_remote never changes the name, runner, installed flag or *)
(* configpath of a row that was in the store (an upsert writes the local   *)
(* name and runner back; only year, updated and steamid take the remote    *)
(* values) and never calls mark_as_installed or mark_as_uninstalled;       *)
(* sync_local never inserts a row and never changes name, year or updated. *)
(***************************************************************************)
C22_FrameOfThePhases ==
    [][/\ RemotePhaseStep =>
            /\ \A id \in DOMAIN store :
                    /\ store'[id].name = store[id].name
                    /\ store'[id].runner = store[id].runner
                    /\ store'[id].installed = store[id].installed
                    /\ store'[id].configpath = store[id].configpath
                    /\ store'[id].slug = store[id].slug
            /\ NewCallsNamed({"mark_as_installed", "mark_as_uninstalled"}) = {}
       /\ LocalPhaseStep =>
            /\ Len(store') = Len(store)
            /\ \A id \in DOMAIN store :
                    /\ store'[id].name = store[id].name
                    /\ store'[id].year = store[id].year
                    /\ store'[id].updated = store[id].updated
                    /\ store'[id].slug = store[id].slug
            /\ NewCallsNamed({"add_games_bulk", "add_or_update"}) = {}]_vars

\* a sync_all that upserted a row whose name differs from the remote name, took the
\* remote year, and then marked a row installed
C22_Witness ==
    /\ Returned("sync_all")
    /\ installed # {}
    /\ \E k \in CallsNamed("add_or_update") : \E n \in DOMAIN remote_library :
            \E id \in calls[k].ids :
                /\ remote_library[n].slug = store[id].slug
                /\ remote_library[n].name # store[id].name
                /\ remote_library[n].year = store[id].year

====
